---- MODULE Spec2Model ----
(***************************************************************************)
(* A model of serde-matcher (src/src/lib.rs): MongoDB-style queries given  *)
(* as JSON trees are compiled by from_str into an ObjMatcher and evaluated *)
(* by matches against a candidate JSON tree.                               *)
(*                                                                         *)
(* JSON values (serde_json::Value) are records of one shape:               *)
(*   t : "null" | "bool" | "num" | "str" | "arr" | "obj"                    *)
(*   n : the number (or 0/1 for a bool), s : the string,                   *)
(*   a : the elements of an array, or the values of an object,             *)
(*   k : the keys of an object, in the map's iteration order.              *)
(* Matchers (ObjMatcher) are records [op, val, value]: op names the        *)
(* variant, val holds the nested matchers of an operator struct, value the *)
(* JSON node wrapped by ObjMatcher::Value.                                 *)
(* An evaluation yields [out, calls]: out is "true", "false", or the panic *)
(* that ended it ("unsupported" for todo!, "decode" for unwrap of a        *)
(* decoding error); calls counts the invocations of ObjMatcher::matches.   *)
(***************************************************************************)
EXTENDS Integers, Sequences, FiniteSets, TLC

VARIABLES query, cand, pc, matcher, outcome, calls

vars == <<query, cand, pc, matcher, outcome, calls>>

\* ------------------------------------------------------------- bounds
\* Numbers range over 1..MaxNum; operator lists hold at most MaxLen elements.
MaxNum == 2
MaxLen == 2

\* ------------------------------------------------------- JSON values
JV(t, n, s, a, k) == [t |-> t, n |-> n, s |-> s, a |-> a, k |-> k]

Null == JV("null", 0, "", <<>>, <<>>)

Bool(b) == JV("bool", IF b THEN 1 ELSE 0, "", <<>>, <<>>)

Number(n) == JV("num", n, "", <<>>, <<>>)

String(s) == JV("str", 0, s, <<>>, <<>>)

Array(items) == JV("arr", 0, "", items, <<>>)

Object(keys, vals) == JV("obj", 0, "", vals, keys)

\* obj.contains_key(key) on a Map
ContainsKey(v, key) == v.t = "obj" /\ \E i \in 1..Len(v.k) : v.k[i] = key

\* the value a Map holds at a key it contains
MapGet(v, key) == v.a[CHOOSE i \in 1..Len(v.k) : v.k[i] = key]

\* other[key]: serde_json's Index<&str> for Value gives Null when other is
\* not an object or lacks the key
\* a lookup whose missing key is a marker of its own, equal to no JSON value
IndexMissingIsAbsent(other, key) ==
    IF ContainsKey(other, key) THEN MapGet(other, key)
    ELSE JV("absent", 0, "", <<>>, <<>>)

Index(other, key) ==
    IF ContainsKey(other, key) THEN MapGet(other, key) ELSE Null

\* value == other on serde_json::Value: structural equality; two objects
\* are equal when they hold the same keys with equal values, in any order
RECURSIVE ValueEq(_, _)
ValueEq(x, y) ==
    /\ x.t = y.t
    /\ x.n = y.n
    /\ x.s = y.s
    /\ IF x.t = "arr"
       THEN /\ Len(x.a) = Len(y.a)
            /\ \A i \in 1..Len(x.a) : ValueEq(x.a[i], y.a[i])
       ELSE IF x.t = "obj"
       THEN /\ Len(x.k) = Len(y.k)
            /\ \A i \in 1..Len(x.k) :
                  /\ ContainsKey(y, x.k[i])
                  /\ ValueEq(x.a[i], MapGet(y, x.k[i]))
       ELSE TRUE

\* ----------------------------------------------------------- matchers
Op(name, val) == [op |-> name, val |-> val, value |-> Null]

ValueM(v) == [op |-> "Value", val |-> <<>>, value |-> v]

\* ------------------------------------------------- decoding (serde)
\* A decoding result: ok says whether it succeeded, m is the matcher.
DeOk(m) == [ok |-> TRUE, m |-> m]

DeErr == [ok |-> FALSE, m |-> ValueM(Null)]

RECURSIVE DeObjMatcher(_)

\* Vec<ObjMatcher>: only an array decodes, element by element
DeVec(v) == [i \in 1..Len(v.a) |-> DeObjMatcher(v.a[i])]

\* the field `val` of an operator struct, from its payload
DeField(name, isList, payload) ==
    IF isList
    THEN IF payload.t = "arr" THEN DeOk(Op(name, DeVec(payload))) ELSE DeErr
    ELSE DeOk(Op(name, <<DeObjMatcher(payload)>>))

\* The derived Deserialize of an operator struct: from a map it needs the
\* renamed field and ignores every other key; from a sequence it takes the
\* field positionally, and the sequence must hold nothing else.
DeStruct(name, key, isList, v) ==
    IF v.t = "obj"
    THEN IF ContainsKey(v, key)
         THEN DeField(name, isList, MapGet(v, key))
         ELSE DeErr
    ELSE IF v.t = "arr"
    THEN IF Len(v.a) = 1 THEN DeField(name, isList, v.a[1]) ELSE DeErr
    ELSE DeErr

\* the variants of enum ObjMatcher that are operator structs, in the order
\* they are declared, each with the key its field is renamed to and whether
\* the field is a Vec<ObjMatcher>
Variants ==
    << [name |-> "Eq", key |-> "$eq", isList |-> FALSE],
       [name |-> "In", key |-> "$in", isList |-> TRUE],
       [name |-> "Ne", key |-> "$ne", isList |-> FALSE],
       [name |-> "Nin", key |-> "$nin", isList |-> TRUE],
       [name |-> "And", key |-> "$and", isList |-> TRUE],
       [name |-> "Not", key |-> "$not", isList |-> FALSE],
       [name |-> "Or", key |-> "$or", isList |-> TRUE] >>

\* the i-th operator struct decoded from v
DeVariant(i, v) ==
    DeStruct(Variants[i].name, Variants[i].key, Variants[i].isList, v)

\* #[serde(untagged)] enum ObjMatcher: the variants are tried in the order
\* they are declared and the first that decodes wins; Value decodes anything
DeObjMatcher(v) ==
    LET decoded == {i \in 1..Len(Variants) : DeVariant(i, v).ok} IN
    IF decoded = {} THEN ValueM(v)
    ELSE DeVariant(CHOOSE i \in decoded : \A j \in decoded : i <= j, v).m

\* serde_json::from_value(value.clone()).unwrap(): the matcher, or the panic
Some(m) == [kind |-> "some", m |-> m]

None == [kind |-> "none", m |-> ValueM(Null)]

Panic == [kind |-> "panic", m |-> ValueM(Null)]

Unwrap(d) == IF d.ok THEN Some(d.m) ELSE Panic

\* the struct try_into_operator decodes value into: the one of the first
\* key found by its chain of contains_key tests ("none" when there is none)
KeyFound(obj) ==
    IF ContainsKey(obj, "$eq") THEN "Eq"
    ELSE IF ContainsKey(obj, "$in") THEN "In"
    ELSE IF ContainsKey(obj, "$ne") THEN "Ne"
    ELSE IF ContainsKey(obj, "$nin") THEN "Nin"
    ELSE IF ContainsKey(obj, "$and") THEN "And"
    ELSE IF ContainsKey(obj, "$not") THEN "Not"
    ELSE IF ContainsKey(obj, "$or") THEN "Or"
    ELSE "none"

TryIntoOperator(value) ==
    IF value.t = "obj" /\ KeyFound(value) # "none"
    THEN Unwrap(DeVariant(
            CHOOSE i \in 1..Len(Variants) : Variants[i].name = KeyFound(value),
            value))
    ELSE None

\* --------------------------------------------------------- evaluation
Ret(out, calls_) == [out |-> out, calls |-> calls_]

Aborted(out) == out \in {"unsupported", "decode"}

\* r, then rest: the outcome of rest after the calls of both
Then(r, rest) == Ret(rest.out, r.calls + rest.calls)

\* one more invocation of ObjMatcher::matches around r
Called(r) == Ret(r.out, r.calls + 1)

\* !b, a panic passing through
Negate(r) ==
    Ret(IF r.out = "true" THEN "false"
        ELSE IF r.out = "false" THEN "true" ELSE r.out, r.calls)

RECURSIVE ObjMatcherMatches(_, _)
RECURSIVE ForEach(_, _, _, _, _, _)
RECURSIVE ObjectFields(_, _, _)

\* a loop that evaluates every element before it looks at any result
RECURSIVE EagerOuts(_, _, _)
EagerOuts(val, i, other) ==
    IF i > Len(val) THEN <<>>
    ELSE <<ObjMatcherMatches(val[i], other)>> \o EagerOuts(val, i + 1, other)

RECURSIVE SumCalls(_)
SumCalls(rs) == IF rs = <<>> THEN 0 ELSE Head(rs).calls + SumCalls(Tail(rs))

ForEachEager(val, i, other, stop, found, last) ==
    LET rs == EagerOuts(val, i, other)
        bad == {j \in 1..Len(rs) : Aborted(rs[j].out)}
    IN IF bad # {}
       THEN Ret(rs[CHOOSE j \in bad : \A l \in bad : j <= l].out, SumCalls(rs))
       ELSE IF \E j \in 1..Len(rs) : rs[j].out = stop
       THEN Ret(found, SumCalls(rs))
       ELSE Ret(last, SumCalls(rs))

\* for v in self.val { if v.matches(other) == stop { return found; } }
\* return last;
ForEach(val, i, other, stop, found, last) ==
    IF i > Len(val) THEN Ret(last, 0)
    ELSE LET r == ObjMatcherMatches(val[i], other) IN
         IF Aborted(r.out) THEN r
         ELSE IF r.out = stop THEN Ret(found, r.calls)
         ELSE Then(r, ForEach(val, i + 1, other, stop, found, last))

EqOperatorMatches(val, other) == ObjMatcherMatches(val[1], other)

InOperatorMatches(val, other) ==
    ForEach(val, 1, other, "true", "true", "false")

NeOperatorMatches(val, other) == Negate(ObjMatcherMatches(val[1], other))

NinOperatorMatches(val, other) ==
    ForEach(val, 1, other, "true", "false", "true")

\* the inverted loop: false on the first element that matches
AndOperatorMatchesInverted(val, other) ==
    ForEach(val, 1, other, "true", "false", "true")

AndOperatorMatches(val, other) ==
    ForEach(val, 1, other, "false", "false", "true")

NotOperatorMatchesUnflipped(val, other) == ObjMatcherMatches(val[1], other)

NotOperatorMatches(val, other) == Negate(ObjMatcherMatches(val[1], other))

OrOperatorMatchesEager(val, other) ==
    ForEachEager(val, 1, other, "true", "true", "false")

OrOperatorMatches(val, other) ==
    ForEach(val, 1, other, "true", "true", "false")

\* a pair whose value is classified whatever it is, a plain value as a literal
FieldMatchesClassified(key, value, other) ==
    LET t == TryIntoOperator(value) IN
    IF t.kind = "panic" THEN Ret("decode", 0)
    ELSE IF t.kind = "some" THEN ObjMatcherMatches(t.m, Index(other, key))
    ELSE ObjMatcherMatches(ValueM(value), Index(other, key))

\* one key/value pair of an object literal against other[key]
FieldMatches(key, value, other) ==
    LET t == TryIntoOperator(value) IN
    IF t.kind = "panic" THEN Ret("decode", 0)
    ELSE IF t.kind = "some" THEN ObjMatcherMatches(t.m, Index(other, key))
    ELSE IF ValueEq(value, Index(other, key)) THEN Ret("true", 0)
    ELSE Ret("false", 0)

\* the order in which `for (key, value) in o` visits the pairs of a Map
MapIter(o) == [i \in 1..Len(o.k) |-> <<o.k[i], o.a[i]>>]

\* a loop that returns after its first pair
ObjectFieldsFirstOnly(pairs, i, other) ==
    IF i > Len(pairs) THEN Ret("true", 0)
    ELSE FieldMatches(pairs[i][1], pairs[i][2], other)

\* for (key, value) in o { ... return false ... } true
ObjectFields(pairs, i, other) ==
    IF i > Len(pairs) THEN Ret("true", 0)
    ELSE LET r == FieldMatches(pairs[i][1], pairs[i][2], other) IN
         IF r.out = "true" THEN Then(r, ObjectFields(pairs, i + 1, other))
         ELSE r

\* a literal that compares every kind but objects by equality
LiteralMatchesByEquality(value, other) ==
    IF value.t = "obj" THEN ObjectFields(MapIter(value), 1, other)
    ELSE Ret(IF ValueEq(value, other) THEN "true" ELSE "false", 0)

\* the None arm of ObjMatcher::Value: a literal
LiteralMatches(value, other) ==
    IF value.t = "num"
    THEN Ret(IF other.t = "num" /\ value.n = other.n THEN "true" ELSE "false", 0)
    ELSE IF value.t = "obj" THEN ObjectFields(MapIter(value), 1, other)
    ELSE Ret("unsupported", 0)

ValueMatches(value, other) ==
    LET t == TryIntoOperator(value) IN
    IF t.kind = "panic" THEN Ret("decode", 0)
    ELSE IF t.kind = "some" THEN ObjMatcherMatches(t.m, other)
    ELSE LiteralMatches(value, other)

ObjMatcherMatches(m, other) ==
    Called(
      IF m.op = "Eq" THEN EqOperatorMatches(m.val, other)
      ELSE IF m.op = "In" THEN InOperatorMatches(m.val, other)
      ELSE IF m.op = "Ne" THEN NeOperatorMatches(m.val, other)
      ELSE IF m.op = "Nin" THEN NinOperatorMatches(m.val, other)
      ELSE IF m.op = "And" THEN AndOperatorMatches(m.val, other)
      ELSE IF m.op = "Not" THEN NotOperatorMatches(m.val, other)
      ELSE IF m.op = "Or" THEN OrOperatorMatches(m.val, other)
      ELSE ValueMatches(m.value, other))

\* ------------------------------------------------------------- inputs
\* {"<key>": payload}
OpQ(key, payload) == Object(<<key>>, <<payload>>)

Nums == {Number(i) : i \in 1..MaxNum}

\* {"$and": 5}: a reserved key whose payload has the wrong shape
Malformed == OpQ("$and", Number(5))

\* the nodes used as payloads and list elements of operators
Elems ==
    Nums
    \cup {OpQ("$eq", n) : n \in Nums}
    \cup { String("x"), Null, Malformed, Array(<<Number(1)>>),
           Object(<<"$in", "$ne">>, <<Number(5), Number(1)>>),
           Object(<<"$ne", "$eq">>, <<Number(1), Number(1)>>) }

SeqsUpTo(S, n) == UNION {[1..l -> S] : l \in 0..n}

ListQueries(n) ==
    {OpQ(key, Array(l)) :
        key \in {"$in", "$nin", "$and", "$or"}, l \in SeqsUpTo(Elems, n)}

OperatorQueries ==
    ListQueries(MaxLen)
    \cup {OpQ(key, p) : key \in {"$eq", "$ne", "$not"},
                         p \in Elems \cup ListQueries(2)}
    \cup Elems
    \cup {Array(<<>>), Array(<<Number(1), Number(2)>>), Bool(TRUE)}

OperatorCandidates ==
    Nums \cup {Null, String("x"), Object(<<"a">>, <<Number(1)>>)}

\* the query of tests::test and the candidates it is run against
TestQuery ==
    OpQ("$or", Array(<<
        Object(<<"a">>, <<OpQ("$or", Array(<<Number(1), Number(2)>>))>>),
        Object(<<"b">>, <<Number(2)>>) >>))

TestCandidates ==
    { Object(<<"a">>, <<Number(1)>>), Object(<<"a">>, <<Number(2)>>),
      Object(<<"a">>, <<Number(3)>>), Object(<<"b">>, <<Number(1)>>),
      Object(<<"b">>, <<Number(2)>>) }

\* object literals over the keys "a", "b" and "c", in every order
FieldValues ==
    Nums
    \cup { Null, String("x"), Array(<<Number(1)>>), Malformed,
           OpQ("$eq", Number(1)), OpQ("$ne", Number(1)),
           OpQ("$eq", String("x")),
           OpQ("$or", Array(<<Number(1), Number(2)>>)),
           Object(<<"x">>, <<Number(1)>>) }

\* the values of the literals of three pairs: one that matches a number,
\* one that matches a missing key, one that is unsupported, one that does
\* not decode
FewFieldValues ==
    {Number(1), Null, OpQ("$eq", String("x")), Malformed}

Orders(keys) ==
    {ks \in [1..Cardinality(keys) -> keys] :
        \A i, j \in 1..Cardinality(keys) : ks[i] = ks[j] => i = j}

ObjectQueries ==
    {Object(<<>>, <<>>)}
    \cup {Object(<<k>>, <<v>>) : k \in {"a", "b"}, v \in FieldValues}
    \cup {Object(ks, <<v, w>>) :
            ks \in Orders({"a", "b"}), v \in FieldValues, w \in FieldValues}
    \cup {Object(ks, vs) :
            ks \in Orders({"a", "b", "c"}), vs \in [1..3 -> FewFieldValues]}

CandidateValues ==
    Nums
    \cup { Null, String("x"), Array(<<Number(1)>>),
           Object(<<"x">>, <<Number(1)>>),
           Object(<<"y", "x">>, <<Number(2), Number(1)>>) }

ObjectCandidates ==
    {Object(<<>>, <<>>), Number(1), Null}
    \cup {Object(<<k>>, <<v>>) : k \in {"a", "b"}, v \in CandidateValues}
    \cup {Object(<<"a", "b">>, <<v, w>>) :
            v \in CandidateValues, w \in CandidateValues}

\* ------------------------------------------------------ state machine
TypeOK ==
    /\ pc \in {"parsed", "built", "failed", "done"}
    /\ outcome \in {"none", "true", "false", "unsupported", "decode"}
    /\ calls \in Nat

Start(q, c) ==
    /\ query = q
    /\ cand = c
    /\ pc = "parsed"
    /\ matcher = ValueM(Null)
    /\ outcome = "none"
    /\ calls = 0

\* from_str, after serde_json::from_str has parsed the text into query
FromStrResult(v) ==
    LET t == TryIntoOperator(v) IN
    IF t.kind = "panic" THEN Panic
    ELSE IF t.kind = "some" THEN Some(t.m)
    ELSE Some(ValueM(v))

FromStr ==
    /\ pc = "parsed"
    /\ LET r == FromStrResult(query) IN
       IF r.kind = "panic"
       THEN /\ pc' = "failed"
            /\ outcome' = "decode"
            /\ UNCHANGED matcher
       ELSE /\ pc' = "built"
            /\ matcher' = r.m
            /\ UNCHANGED outcome
    /\ UNCHANGED <<query, cand, calls>>

\* matcher.matches(&cand)
Matches ==
    /\ pc = "built"
    /\ LET r == ObjMatcherMatches(matcher, cand) IN
       /\ outcome' = r.out
       /\ calls' = r.calls
    /\ pc' = "done"
    /\ UNCHANGED <<query, cand, matcher>>

Next == FromStr \/ Matches

\* every query is run against every candidate of its family
Inputs ==
    (OperatorQueries \X OperatorCandidates)
    \cup ({TestQuery} \X TestCandidates)
    \cup (ObjectQueries \X ObjectCandidates)

Init == \E in \in Inputs : Start(in[1], in[2])

Spec == Init /\ [][Next]_vars

\* ------------------------------------------------------------- claims
Done == pc = "done"

Out(m, v) == ObjMatcherMatches(m, v).out

\* the outcome of each element of the list operator held in matcher,
\* evaluated on its own against the candidate
ElemOuts == [i \in 1..Len(matcher.val) |-> Out(matcher.val[i], cand)]

NoneAborts(outs) == \A i \in 1..Len(outs) : ~Aborted(outs[i])

AllTrue(outs) == \A i \in 1..Len(outs) : outs[i] = "true"

AnyTrue(outs) == \E i \in 1..Len(outs) : outs[i] = "true"

AsOut(b) == IF b THEN "true" ELSE "false"

\* what tests::test asserts for each candidate
TestExpected(c) ==
    IF c.k[1] = "a" THEN AsOut(c.a[1].n \in {1, 2}) ELSE AsOut(c.a[1].n = 2)

\* C1: a list operator evaluates its elements against the same candidate;
\* whenever it returns, And says that every element matches, Or and In that
\* some element matches, Nin that no element matches (so the empty list
\* gives true, false, false, true), and it returns whenever no element
\* panics; the query of tests::test gives the verdicts the test asserts.
C1_ListOperators ==
    /\ (Done /\ matcher.op \in {"And", "Or", "In", "Nin"}) =>
          /\ NoneAborts(ElemOuts) => ~Aborted(outcome)
          /\ ~Aborted(outcome) =>
                outcome = AsOut(CASE matcher.op = "And" -> AllTrue(ElemOuts)
                                  [] matcher.op = "Nin" -> ~AnyTrue(ElemOuts)
                                  [] OTHER -> AnyTrue(ElemOuts))
    /\ (Done /\ query = TestQuery) => outcome = TestExpected(cand)

C1_Witness ==
    /\ Done
    /\ matcher.op = "And"
    /\ Len(matcher.val) = 2
    /\ ElemOuts = <<"true", "false">>
    /\ outcome = "false"

Flip(o) == CASE o = "true" -> "false" [] o = "false" -> "true" [] OTHER -> o

NotAndQuery ==
    OpQ("$not", OpQ("$and",
        Array(<<OpQ("$eq", Number(1)), OpQ("$eq", Number(2))>>)))

\* C2: Not(m) gives the negation of what m gives, Ne(v2) the negation of
\* what Eq(v2) gives, and Eq(v2) what v2 gives (a panic of the nested
\* matcher is the panic of the operator); the query
\* {"$not": {"$and": [{"$eq": 1}, {"$eq": 2}]}} matches the candidate 1.
C2_Negation ==
    Done =>
      /\ matcher.op = "Not" => outcome = Flip(Out(matcher.val[1], cand))
      /\ matcher.op = "Ne" => outcome = Flip(Out(Op("Eq", matcher.val), cand))
      /\ matcher.op = "Eq" => outcome = Out(matcher.val[1], cand)
      /\ (query.t = "obj" /\ query.k = <<"$ne">>) =>
            outcome = Flip(Out(FromStrResult(OpQ("$eq", query.a[1])).m, cand))
      /\ (query = NotAndQuery /\ cand = Number(1)) => outcome = "true"

C2_Witness ==
    Done /\ query = NotAndQuery /\ cand = Number(1) /\ outcome = "true"

IsNotAnd2 ==
    /\ matcher.op = "Not"
    /\ matcher.val[1].op = "And"
    /\ Len(matcher.val[1].val) = 2

\* C3: Not(And([a, b])) and Or([Not(a), Not(b)]) give the same outcome on
\* the same candidate, a panic being an outcome of its own.
C3_DeMorgan ==
    (Done /\ IsNotAnd2) =>
       LET a == matcher.val[1].val[1]
           b == matcher.val[1].val[2]
       IN outcome = Out(Op("Or", <<Op("Not", <<a>>), Op("Not", <<b>>)>>), cand)

C3_Witness ==
    /\ Done
    /\ IsNotAnd2
    /\ Out(matcher.val[1].val[1], cand) = "false"
    /\ Aborted(Out(matcher.val[1].val[2], cand))
    /\ outcome = "true"

RECURSIVE CallsUpTo(_, _, _)
\* the invocations made by evaluating the first n elements of val
CallsUpTo(val, n, v) ==
    IF n = 0 THEN 0
    ELSE CallsUpTo(val, n - 1, v) + ObjMatcherMatches(val[n], v).calls

\* the outcome that makes an element decisive
Decisive(op) == IF op = "And" THEN "false" ELSE "true"

Stops(op, o) == o = Decisive(op) \/ Aborted(o)

\* C10: In, Or and And evaluate their elements in list order up to the first
\* element that is decisive or panics, and no further: the outcome is that
\* element's (the verdict, or the panic), whatever the elements after it
\* would do, and exactly the elements up to it have been evaluated; with no
\* such element every element is evaluated and the verdict is the other one.
C10_ShortCircuit ==
    (Done /\ matcher.op \in {"In", "Or", "And"}) =>
       LET outs == ElemOuts
           op == matcher.op
           stops == {i \in 1..Len(outs) : Stops(op, outs[i])}
       IN IF stops = {}
          THEN /\ outcome = Flip(Decisive(op))
               /\ calls = 1 + CallsUpTo(matcher.val, Len(outs), cand)
          ELSE LET first == CHOOSE i \in stops : \A j \in stops : i <= j
               IN /\ outcome = outs[first]
                  /\ calls = 1 + CallsUpTo(matcher.val, first, cand)

C10_Witness ==
    /\ Done
    /\ matcher.op = "Or"
    /\ Len(matcher.val) = 2
    /\ ElemOuts[1] = "true"
    /\ Aborted(ElemOuts[2])
    /\ outcome = "true"

\* ------------------------------------------------- object literals
Reserved == {"$eq", "$in", "$ne", "$nin", "$and", "$not", "$or"}

HasReserved(v) == \E key \in Reserved : ContainsKey(v, key)

\* the query is an object with no reserved key, evaluated as a literal
PlainObject(v) == v.t = "obj" /\ ~HasReserved(v)

SupportedKinds == {"num", "obj"}

\* classify a node, then match: an operator if the node carries a reserved
\* key, otherwise a Literal; "decode" if the classification fails
ClassifiedOut(v, c) ==
    LET r == FromStrResult(v) IN
    IF r.kind = "panic" THEN "decode" ELSE Out(r.m, c)

\* what the code does with one pair: an operator if the value carries a
\* reserved key, otherwise equality with the candidate's value at the key
PairOut(v, c) ==
    IF HasReserved(v) THEN ClassifiedOut(v, c) ELSE AsOut(ValueEq(v, c))

NestedLiteral == Object(<<"a">>, <<Object(<<"x">>, <<Number(1)>>)>>)

NestedCandidate ==
    Object(<<"a">>, <<Object(<<"y", "x">>, <<Number(2), Number(1)>>)>>)

\* C4 as stated: an object literal matches iff, for every pair, the matcher
\* obtained by classifying the value (an operator, otherwise a Literal)
\* matches the candidate's value at the key, so a plain nested object is
\* matched field by field. Stated for pairs whose values are of the kinds
\* a Literal supports (numbers and objects).
C4_AsStated ==
    (Done /\ PlainObject(query)
          /\ \A i \in 1..Len(query.k) : query.a[i].t \in SupportedKinds) =>
       (outcome = "true" <=>
          \A i \in 1..Len(query.k) :
             ClassifiedOut(query.a[i], Index(cand, query.k[i])) = "true")

\* C4, amended: an object literal matches iff every pair matches, where a
\* pair whose value carries a reserved key matches when the classified
\* operator matches the candidate's value at the key, and any other pair
\* matches when its value is structurally equal to the candidate's value at
\* the key; it returns whenever no pair panics, and with zero pairs it
\* matches. A plain nested object must thus equal the candidate's nested
\* object: a key only the candidate's nested object has is a mismatch.
C4_ObjectLiteral ==
    (Done /\ PlainObject(query)) =>
       LET outs == [i \in 1..Len(query.k) |->
                       PairOut(query.a[i], Index(cand, query.k[i]))]
       IN /\ outcome = "true" <=> AllTrue(outs)
          /\ NoneAborts(outs) => ~Aborted(outcome)
          /\ (query = NestedLiteral /\ cand = NestedCandidate) =>
                outcome = "false"

C4_Witness ==
    Done /\ query = NestedLiteral /\ cand = NestedCandidate /\ outcome = "false"

UnsupportedKinds == {"null", "bool", "str", "arr"}

SingleKey(v, keys) == v.t = "obj" /\ Len(v.k) = 1 /\ v.k[1] \in keys

\* the literal node of an unsupported kind that the evaluation of v meets
\* first: v itself, the payload of its operator, the first element of its
\* list, or the value of its only field
FirstLiteral(v) ==
    IF SingleKey(v, {"$eq", "$ne", "$not"}) THEN v.a[1]
    ELSE IF SingleKey(v, {"$in", "$nin", "$and", "$or"})
            /\ v.a[1].t = "arr" /\ Len(v.a[1].a) > 0
    THEN v.a[1].a[1]
    ELSE IF SingleKey(v, {"a", "b"}) THEN v.a[1]
    ELSE v

\* an array of exactly one element under an operator, which serde decodes
\* from its sequence form as Eq of the element
DecodedAsEq(v) ==
    LET lit == FirstLiteral(v) IN
    /\ lit # v
    /\ ~SingleKey(v, {"a", "b"})
    /\ lit.t = "arr"
    /\ Len(lit.a) = 1

\* C6 as stated: a literal node of kind Null, Bool, String or Array that has
\* to be matched (the query itself, an operator's payload or list element,
\* the value of a field of an object literal) gives "unsupported". The
\* one-element arrays under an operator are left out here: what happens to
\* them is the classification of C9.
C6_AsStated ==
    (Done /\ FirstLiteral(query).t \in UnsupportedKinds
          /\ ~DecodedAsEq(query)) =>
       outcome = "unsupported"

\* C6, amended: a Literal wrapping a Null, Bool, String or Array gives
\* "unsupported", and a Literal is what the query itself becomes, and what
\* an operator's payload or list element becomes unless it is an array of
\* exactly one element, which is decoded as Eq of that element and gives
\* what {"$eq": element} gives there. The value of a field of an object
\* literal is not matched as a Literal: it is compared with the candidate's
\* value at the key by structural equality and gives true or false.
C6_UnsupportedKinds ==
    (Done /\ FirstLiteral(query).t \in UnsupportedKinds) =>
       LET lit == FirstLiteral(query) IN
       IF SingleKey(query, {"a", "b"})
       THEN outcome = AsOut(ValueEq(lit, Index(cand, query.k[1])))
       ELSE IF DecodedAsEq(query)
       THEN outcome =
               ClassifiedOut(Object(query.k,
                   <<IF query.a[1] = lit THEN OpQ("$eq", lit.a[1])
                     ELSE Array(<<OpQ("$eq", lit.a[1])>>
                                \o Tail(query.a[1].a))>>), cand)
       ELSE outcome = "unsupported"

C6_Witness ==
    /\ Done
    /\ query = Object(<<"a">>, <<String("x")>>)
    /\ cand = Object(<<"a">>, <<String("x")>>)
    /\ outcome = "true"

\* the candidate with an explicit null at every key of the literal it lacks
WithNulls(c, lit) ==
    LET missing == SelectSeq(lit.k, LAMBDA key : ~ContainsKey(c, key))
        base == IF c.t = "obj" THEN c ELSE Object(<<>>, <<>>)
    IN Object(base.k \o missing,
              base.a \o [i \in 1..Len(missing) |-> Null])

EmptyObject == Object(<<>>, <<>>)

\* C7: a key of an object literal that the candidate lacks (or any key, when
\* the candidate is no object) is looked up as null and the evaluation goes
\* on: the outcome is the one against the candidate with an explicit null at
\* that key; a number or {"$eq": number} at a missing key gives false.
C7_MissingField ==
    (Done /\ PlainObject(query)) =>
       /\ outcome = Out(matcher, WithNulls(cand, query))
       /\ \A i \in 1..Len(query.k) :
             (/\ ~ContainsKey(cand, query.k[i])
              /\ \/ query.a[i].t = "num"
                 \/ SingleKey(query.a[i], {"$eq"}) /\ query.a[i].a[1].t = "num")
             => ~(outcome = "true")
       /\ (Len(query.k) = 1 /\ ~ContainsKey(cand, query.k[1])
             /\ (query.a[1].t = "num" \/ query.a[1] = OpQ("$eq", Number(1))))
          => outcome = "false"

C7_Witness ==
    /\ Done
    /\ query = Object(<<"a">>, <<OpQ("$eq", Number(1))>>)
    /\ cand = EmptyObject
    /\ outcome = "false"

RECURSIVE HasWrongShape(_)
\* some object of the tree carries a reserved key whose payload has the
\* wrong shape: a list operator's key with a payload that is no array
HasWrongShape(v) ==
    \/ \E key \in {"$in", "$nin", "$and", "$or"} :
          ContainsKey(v, key) /\ MapGet(v, key).t # "arr"
    \/ \E i \in 1..Len(v.a) : HasWrongShape(v.a[i])

Perms(n) == {f \in [1..n -> 1..n] : \A i, j \in 1..n : f[i] = f[j] => i = j}

\* the object with its pairs in the order f
Permuted(v, f) ==
    Object([i \in 1..Len(v.k) |-> v.k[f[i]]], [i \in 1..Len(v.k) |-> v.a[f[i]]])

\* C8 as stated: every permutation of the pairs of an object literal gives
\* the same outcome, a panic being an outcome of its own. Stated for the
\* literals whose operators all have payloads of the right shape.
C8_AsStated ==
    (Done /\ PlainObject(query) /\ ~HasWrongShape(query)) =>
       \A f \in Perms(Len(query.k)) :
          ClassifiedOut(Permuted(query, f), cand) = outcome

\* C8, amended: a permutation of the pairs never changes whether the literal
\* matches, and two orders that both return give the same verdict; when one
\* pair does not match and another panics, the order decides between false
\* and the panic.
C8_FieldOrder ==
    (Done /\ PlainObject(query)) =>
       \A f \in Perms(Len(query.k)) :
          LET o == ClassifiedOut(Permuted(query, f), cand) IN
          /\ outcome = "true" <=> o = "true"
          /\ (~Aborted(outcome) /\ ~Aborted(o)) => outcome = o

C8_Witness ==
    /\ Done
    /\ PlainObject(query)
    /\ Len(query.k) = 3
    /\ outcome = "false"
    /\ ClassifiedOut(Permuted(query, <<3, 1, 2>>), cand) = "unsupported"
    /\ ClassifiedOut(Permuted(query, <<2, 3, 1>>), cand) = "decode"

\* ------------------------------------------------------ classification
\* C5 as stated: a query holding, at any depth, a reserved key whose payload
\* has the wrong shape makes from_str fail, and no call of matches on a
\* matcher from_str returned hits a decoding failure.
C5_AsStated ==
    /\ HasWrongShape(query) => pc \in {"parsed", "failed"}
    /\ Done => outcome # "decode"

KeyOrder == <<"$eq", "$in", "$ne", "$nin", "$and", "$not", "$or">>

VariantOf(key) ==
    CASE key = "$eq" -> "Eq" [] key = "$in" -> "In" [] key = "$ne" -> "Ne"
      [] key = "$nin" -> "Nin" [] key = "$and" -> "And"
      [] key = "$not" -> "Not" [] OTHER -> "Or"

FirstKey(v) ==
    KeyOrder[CHOOSE i \in 1..7 :
                /\ ContainsKey(v, KeyOrder[i])
                /\ \A j \in 1..(i - 1) : ~ContainsKey(v, KeyOrder[j])]

\* the matcher m is what the claim makes of the node v
ClassifiedAs(m, v) ==
    IF HasReserved(v) THEN m.op = VariantOf(FirstKey(v)) ELSE m = ValueM(v)

\* C9 as stated: every node of the query is classified by its reserved keys
\* alone: the operator of the first key present in the fixed order, or, for
\* a node that is no object or has no reserved key, a Literal wrapping the
\* node unchanged. Stated for the query and for the nodes under its operator.
C9_AsStated ==
    (pc \in {"built", "done"}) =>
       /\ ClassifiedAs(matcher, query)
       /\ HasReserved(query) =>
             LET payload == MapGet(query, FirstKey(query)) IN
             IF matcher.op \in {"Eq", "Ne", "Not"}
             THEN ClassifiedAs(matcher.val[1], payload)
             ELSE \A i \in 1..Len(matcher.val) :
                     ClassifiedAs(matcher.val[i], payload.a[i])

====
